---- MODULE Spec2Model ----
(***************************************************************************)
(* A model of taxcalcindia: the value models of models.py (TaxSettings,    *)
(* SalaryIncome, BusinessIncome, CapitalGainsIncome, OtherIncome,          *)
(* Deductions) and IncomeTaxCalculator of calculator.py.                   *)
(*                                                                         *)
(* Units.  Python computes in floats; the model computes the same values   *)
(* exactly, in integers:                                                   *)
(*   - amounts held by the value models are whole rupees;                  *)
(*   - the HRA components, total_deductions and the taxable incomes are    *)
(*     in paise (1/100 rupee), so that 0.1 * x, 0.25 * x and 0.5 * x are   *)
(*     exact: 0.1 * basic_and_da rupees is 10 * basic_and_da paise;        *)
(*   - a rate is a number of twentieths (0.05 is 1, 0.30 is 6), and a tax  *)
(*     is in 1/2000 rupee (paise times twentieths): 2000 units a rupee,    *)
(*     20 units a paisa.                                                   *)
(***************************************************************************)
EXTENDS Integers, Sequences, FiniteSets, TLC

VARIABLES
  pc,              \* where the client program is: "settings", "models", "ready", "failed", "slab"
  err,             \* the exception the last operation raised, or "none"
  settings,        \* the TaxSettings object
  salary,          \* the SalaryIncome object
  business,        \* the BusinessIncome object
  other_income,    \* the OtherIncome object
  capital_gains,   \* the CapitalGainsIncome object
  deductions,      \* the Deductions object (its stored fields)
  ded_args,        \* the arguments Deductions.__init__ was called with
  given,           \* the names of the model objects constructed so far
  calls,           \* number of calculate_tax calls made on the calculator
  locals,          \* the local variables of the last calculate_tax call
  result,          \* <<the dict the last calculate_tax call returned>>, or <<>>
  slab_in,         \* the arguments of a direct call of the slab engine
  slab_out,        \* <<its return value>>, or <<>>
  settings_args,   \* <<the arguments TaxSettings.__init__ was called with>>, or <<>>
  set_args,        \* <<the field and value of the last 80TTA/80TTB assignment>>, or <<>>
  first            \* <<the figures the first calculate_tax call returned>>, or <<>>

vars == <<pc, err, settings, salary, business, other_income, capital_gains,
          deductions, ded_args, given, calls, locals, result, slab_in, slab_out,
          settings_args, set_args, first>>

----------------------------------------------------------------------------
(* Python builtins used by the code *)

Min2(a, b) == IF a <= b THEN a ELSE b

Max2(a, b) == IF a >= b THEN a ELSE b

Min3(a, b, c) == Min2(a, Min2(b, c))

Abs(x) == IF x < 0 THEN 0 - x ELSE x

\* round(): x rounded to the nearest multiple of d, a tie going to the even
\* multiple, as Python rounds (\div and % floor, so this is right for x < 0).
RoundHalfEven(x, d) ==
  LET q == x \div d
      r == x % d
  IN IF 2 * r < d THEN q * d
     ELSE IF 2 * r > d THEN (q + 1) * d
     ELSE IF q % 2 = 0 THEN q * d ELSE (q + 1) * d

\* round(tax, 2): a tax (1/2000 rupee) rounded to whole paise (20 units)
Round2(tax) == RoundHalfEven(tax, 20)

\* round(tax): a tax (1/2000 rupee) rounded to whole rupees, as an integer
Round0(tax) == RoundHalfEven(tax, 2000) \div 2000

----------------------------------------------------------------------------
(* The slab engine: IncomeTaxCalculator.__calculate_tax_per_slab *)

\* float("inf"), the upper limit of the last bracket of a table
Inf == 2147483647

\* tax_per_slab[key] = value on a dict kept as a sequence in insertion order
DictSet(d, key, value) ==
  IF \E i \in 1..Len(d) : d[i].key = key
  THEN [i \in 1..Len(d) |-> IF d[i].key = key THEN [key |-> key, value |-> value] ELSE d[i]]
  ELSE Append(d, [key |-> key, value |-> value])

\* a faulty variant of SlabLoop: the key's upper bound is the table's nominal
\* limit, not capped at the taxable income
RECURSIVE SlabLoopNominalUpper(_, _, _, _, _, _, _)
SlabLoopNominalUpper(taxable_income, slab, i, tax, tax_per_slab, remaining, previous_limit) ==
  IF i > Len(slab) \/ remaining <= 0
  THEN [tax |-> tax, tax_per_slab |-> tax_per_slab]
  ELSE LET limit == slab[i].limit
           rate == slab[i].rate
           slab_end == IF limit # Inf THEN limit ELSE taxable_income
           taxable_in_slab == Min2(slab_end - previous_limit, remaining)
           slab_tax == taxable_in_slab * rate
       IN SlabLoopNominalUpper(taxable_income, slab, i + 1,
                   tax + slab_tax,
                   DictSet(tax_per_slab, <<previous_limit, slab_end>>, slab_tax),
                   remaining - taxable_in_slab,
                   limit)

\* the for loop over the brackets, from bracket i on
RECURSIVE SlabLoop(_, _, _, _, _, _, _)
SlabLoop(taxable_income, slab, i, tax, tax_per_slab, remaining, previous_limit) ==
  IF i > Len(slab) \/ remaining <= 0
  THEN [tax |-> tax, tax_per_slab |-> tax_per_slab]
  ELSE LET limit == slab[i].limit
           rate == slab[i].rate
           slab_end == IF limit # Inf THEN limit ELSE taxable_income
           taxable_in_slab == Min2(slab_end - previous_limit, remaining)
           slab_tax == taxable_in_slab * rate
       IN SlabLoop(taxable_income, slab, i + 1,
                   tax + slab_tax,
                   DictSet(tax_per_slab,
                           <<previous_limit, Min2(slab_end, taxable_income)>>,
                           slab_tax),
                   remaining - taxable_in_slab,
                   limit)

calculate_tax_per_slab(taxable_income, slab) ==
  IF taxable_income <= 0
  THEN [tax |-> 0, tax_per_slab |-> <<>>]
  ELSE SlabLoop(taxable_income, slab, 1, 0, <<>>, taxable_income, 0)

----------------------------------------------------------------------------
(* models.py: the value models *)

PRIVATE == "private"

GOVERNMENT == "government"

SELF_EMPLOYED == "self_employed"

EmploymentType == {PRIVATE, GOVERNMENT, SELF_EMPLOYED}

\* TaxSettings.__init__ stores its four arguments ...
TaxSettingsNew(age, financial_year, is_metro_resident, employment_type) ==
  [age |-> age, financial_year |-> financial_year,
   is_metro_resident |-> is_metro_resident, employment_type |-> employment_type]

\* a faulty variant of TaxSettingsValid: the upper ends of the ranges left out
TaxSettingsValidExclusive(age, financial_year) ==
  /\ age \in 18..99
  /\ financial_year \in 2025..2049

\* ... and raises TaxCalculationException unless this holds
TaxSettingsValid(age, financial_year) ==
  /\ age \in 18..100
  /\ financial_year \in 2025..2050

SalaryIncomeNew(basic_and_da, hra, other_allowances, bonus_and_commissions) ==
  [basic_and_da |-> basic_and_da, hra |-> hra,
   other_allowances |-> other_allowances,
   bonus_and_commissions |-> bonus_and_commissions]

SalaryTotal(s) ==
  s.basic_and_da + s.hra + s.other_allowances + s.bonus_and_commissions

BusinessIncomeNew(business_income, property_income) ==
  [business_income |-> business_income, property_income |-> property_income]

BusinessTotal(b) == b.business_income + b.property_income

CapitalGainsIncomeNew(short_term_at_normal, short_term_at_20_percent, long_term_at_12_5_percent, long_term_at_20_percent) ==
  [short_term_at_normal |-> short_term_at_normal,
   short_term_at_20_percent |-> short_term_at_20_percent,
   long_term_at_12_5_percent |-> long_term_at_12_5_percent,
   long_term_at_20_percent |-> long_term_at_20_percent]

CapitalGainsTotal(c) ==
  c.short_term_at_normal + c.short_term_at_20_percent
    + c.long_term_at_12_5_percent + c.long_term_at_20_percent

\* CapitalGainsIncome.total_capital_gains_tax, in 1/2000 rupee:
\* 0.2 is 400/2000, 0.125 is 250/2000
total_capital_gains_tax(c) ==
  c.short_term_at_20_percent * 400
    + c.long_term_at_12_5_percent * 250
    + c.long_term_at_20_percent * 400

OtherIncomeNew(savings_account_interest, fixed_deposit_interest, other_sources) ==
  [savings_account_interest |-> savings_account_interest,
   fixed_deposit_interest |-> fixed_deposit_interest,
   other_sources |-> other_sources]

OtherTotal(o) ==
  o.savings_account_interest + o.fixed_deposit_interest + o.other_sources

\* the keyword parameters of Deductions.__init__, all defaulting to 0
DeductionParams ==
  {"section_80c", "section_80d", "section_80gg", "section_80dd", "section_80ddb",
   "section_24b", "section_80ccd_1b", "section_80ccd_2", "section_80eea",
   "section_80u", "section_80eeb", "section_80e", "section_80g_50percent",
   "section_80g_100percent", "section_80gga", "section_80ggc",
   "rent_for_hra_exemption", "professional_tax", "food_coupons", "other_exemption"}

DeductionDefaults == [p \in DeductionParams |-> 0]

\* Deductions.__init__: the fields it stores for the arguments a
DeductionsNew(a) ==
  [section_80c |-> Min2(a.section_80c, 150000),
   section_80d |-> Min2(a.section_80d, 100000),
   section_80gg |-> a.section_80gg,
   section_80dd |-> Min2(a.section_80dd, 1250000),
   section_80ddb |-> Min2(a.section_80ddb, 100000),
   section_24b |-> Min2(a.section_24b, 200000),
   section_80ccd_1b |-> Min2(a.section_80ccd_1b, 50000),
   section_80ccd_2 |-> Min2(a.section_80ccd_2, 168001),
   section_80eea |-> Min2(a.section_80eea, 150000),
   section_80u |-> Min2(a.section_80u, 125000),
   section_80eeb |-> Min2(a.section_80eeb, 150000),
   section_80e |-> a.section_80e,
   section_80g_50percent |-> a.section_80g_50percent,
   section_80g_100percent |-> a.section_80g_100percent,
   section_80gga |-> a.section_80gga,
   section_80ggc |-> a.section_80ggc,
   section_80tta |-> 0,
   section_80ttb |-> 0,
   rent_for_hra_exemption |-> a.rent_for_hra_exemption,
   professional_tax |-> Min2(a.professional_tax, 2500),
   food_coupons |-> Min2(a.food_coupons, 26000),
   other_exemption |-> a.other_exemption]

\* Deductions.total
DeductionsTotal(d) ==
  d.section_80c
    + d.section_80d
    + d.section_80dd
    + d.section_80ddb
    + d.section_24b
    + d.section_80ccd_1b
    + d.section_80ccd_2
    + d.section_80eea
    + d.section_80u
    + d.section_80eeb
    + d.section_80e
    + d.section_80g_50percent
    + d.section_80g_100percent
    + d.section_80gga
    + d.section_80ggc
    + d.section_80ggc
    + d.section_80tta
    + d.section_80ttb
    + d.professional_tax
    + d.food_coupons
    + d.other_exemption

\* the section_80tta / section_80ttb setters. An argument is <<v>> for the
\* number v and <<>> for None, which the setters take as 0 ...
NoneAsZero(arg) == IF arg = <<>> THEN 0 ELSE arg[1]

\* (the setter without its check, for comparison: nothing is rejected)
SetterRejectsNothing(value) == FALSE

\* ... a negative value is rejected with TaxCalculationException ...
SetterRejects(value) == value < 0

\* ... and an accepted one is stored capped

Setter80ttaStored(value) == Min2(value, 10000)

Setter80ttbStored(value) == Min2(value, 50000)

----------------------------------------------------------------------------
(* calculator.py: IncomeTaxCalculator over the objects it holds *)

\* TaxSettings.standard_deduction, read by get_taxable_income: the fixed
\* year-dependent standard deduction, in rupees
standard_deduction(s) == 75000

\* get_tax_slabs(financial_year, age): the bracket tables by regime key,
\* limits in paise, rates in twentieths
get_tax_slabs(financial_year, age) ==
  [new_regime |->
     << [limit |-> 40000000, rate |-> 0], [limit |-> 80000000, rate |-> 1],
        [limit |-> 120000000, rate |-> 2], [limit |-> 160000000, rate |-> 3],
        [limit |-> 200000000, rate |-> 4], [limit |-> 240000000, rate |-> 5],
        [limit |-> Inf, rate |-> 6] >>,
   old_regime_general |->
     << [limit |-> 25000000, rate |-> 0], [limit |-> 50000000, rate |-> 1],
        [limit |-> 100000000, rate |-> 4], [limit |-> Inf, rate |-> 6] >>,
   old_regime_senior |->
     << [limit |-> 30000000, rate |-> 0], [limit |-> 50000000, rate |-> 1],
        [limit |-> 100000000, rate |-> 4], [limit |-> Inf, rate |-> 6] >>,
   old_regime_super_senior |->
     << [limit |-> 50000000, rate |-> 0], [limit |-> 100000000, rate |-> 4],
        [limit |-> Inf, rate |-> 6] >>]

\* the property gross_income of a calculator c, in rupees
gross_income(c) ==
  SalaryTotal(c.salary) + BusinessTotal(c.business) + OtherTotal(c.other_income)

\* __calculate_hra_component_for_private, in paise
calculate_hra_component_for_private(c) ==
  IF c.settings.employment_type = PRIVATE
  THEN Min3(100 * c.salary.hra,
            50 * c.salary.basic_and_da,
            100 * c.deductions.rent_for_hra_exemption - 10 * c.salary.basic_and_da)
  ELSE 0

\* __calculate_hra_component_for_self_employed, in paise
calculate_hra_component_for_self_employed(c) ==
  IF c.settings.employment_type = SELF_EMPLOYED
  THEN Min3(100 * 5000, 25 * gross_income(c), 10 * c.salary.basic_and_da)
  ELSE 0

\* the property total_deductions, in paise
total_deductions(c) ==
  100 * DeductionsTotal(c.deductions)
    + calculate_hra_component_for_private(c)
    + calculate_hra_component_for_self_employed(c)

\* a faulty variant of get_taxable_income: the deductions are taken off the
\* new-regime income too
get_taxable_income_deducting_both(c) ==
  LET sd == IF c.settings.employment_type = SELF_EMPLOYED
            THEN 0 ELSE standard_deduction(c.settings)
      t == Max2(0, 100 * gross_income(c) - 100 * sd - total_deductions(c))
  IN [new_regime_taxable_income |-> t, old_regime_taxable_income |-> t]

\* get_taxable_income, both in paise
get_taxable_income(c) ==
  LET sd == IF c.settings.employment_type = SELF_EMPLOYED
            THEN 0 ELSE standard_deduction(c.settings)
  IN [new_regime_taxable_income |-> Max2(0, 100 * gross_income(c) - 100 * sd),
      old_regime_taxable_income |->
        Max2(0, 100 * gross_income(c) - 100 * sd - total_deductions(c))]

\* the key of the old-regime table for an age
old_slab_key(age) ==
  IF age >= 80 THEN "old_regime_super_senior"
  ELSE IF age >= 60 THEN "old_regime_senior"
  ELSE "old_regime_general"

\* a faulty variant of Recommendation: a tie goes to the old regime
RecommendationTieOld(new_tax, old_tax) ==
  IF new_tax >= old_tax
  THEN [recommended_regime |-> "old",
        summary |-> <<"Old tax regime results in a savings of", Round0(new_tax - old_tax),
                      "compared to the new regime">>,
        tax_savings_amount |-> Round0(new_tax - old_tax)]
  ELSE [recommended_regime |-> "new",
        summary |-> <<"New tax regime results in a savings of", Round0(old_tax - new_tax),
                      "compared to the old regime">>,
        tax_savings_amount |-> Round0(old_tax - new_tax)]

\* the recommendation calculate_tax builds from the two taxes
Recommendation(new_tax, old_tax) ==
  IF new_tax > old_tax
  THEN [recommended_regime |-> "old",
        summary |-> <<"Old tax regime results in a savings of", Round0(new_tax - old_tax),
                      "compared to the new regime">>,
        tax_savings_amount |-> Round0(new_tax - old_tax)]
  ELSE [recommended_regime |-> "new",
        summary |-> <<"New tax regime results in a savings of", Round0(old_tax - new_tax),
                      "compared to the old regime">>,
        tax_savings_amount |-> Round0(old_tax - new_tax)]

\* a faulty variant of CalculateTaxLocals: Deductions.total is not taken off
\* the old-regime tax
CalculateTaxLocalsNoRebate(c) ==
  LET slabs == get_tax_slabs(c.settings.financial_year, c.settings.age)
      taxable == get_taxable_income(c)
      new == calculate_tax_per_slab(taxable.new_regime_taxable_income, slabs.new_regime)
      old == calculate_tax_per_slab(taxable.old_regime_taxable_income,
                                    slabs[old_slab_key(c.settings.age)])
      old_tax == Max2(old.tax, 0)
  IN [new_taxable |-> taxable.new_regime_taxable_income,
      old_taxable |-> taxable.old_regime_taxable_income,
      new_tax |-> new.tax,
      new_tax_per_slab |-> new.tax_per_slab,
      old_slab_tax |-> old.tax,
      old_tax |-> old_tax,
      old_tax_per_slab |-> old.tax_per_slab,
      recommendation |-> Recommendation(new.tax, old_tax)]

\* the body of calculate_tax up to the result: its local variables
CalculateTaxLocals(c) ==
  LET slabs == get_tax_slabs(c.settings.financial_year, c.settings.age)
      taxable == get_taxable_income(c)
      new == calculate_tax_per_slab(taxable.new_regime_taxable_income, slabs.new_regime)
      old == calculate_tax_per_slab(taxable.old_regime_taxable_income,
                                    slabs[old_slab_key(c.settings.age)])
      old_tax == Max2(old.tax - 2000 * DeductionsTotal(c.deductions), 0)
  IN [new_taxable |-> taxable.new_regime_taxable_income,
      old_taxable |-> taxable.old_regime_taxable_income,
      new_tax |-> new.tax,
      new_tax_per_slab |-> new.tax_per_slab,
      old_slab_tax |-> old.tax,
      old_tax |-> old_tax,
      old_tax_per_slab |-> old.tax_per_slab,
      recommendation |-> Recommendation(new.tax, old_tax)]

\* the dict calculate_tax returns; an optional entry is <<its value>> or <<>>
CalculateTaxResult(c, l, is_comparision_needed, is_tax_per_slab_needed) ==
  [income_summary |->
     [gross_income |-> gross_income(c),
      gross_deductions |-> DeductionsTotal(c.deductions),
      new_regime_taxable_income |-> l.new_taxable,
      old_regime_taxable_income |-> l.old_taxable],
   tax_liability |->
     [new_regime |-> Round2(l.new_tax), old_regime |-> Round2(l.old_tax)],
   tax_regime_comparison |->
     IF is_comparision_needed THEN <<l.recommendation>> ELSE <<>>,
   tax_per_slabs |->
     IF is_tax_per_slab_needed
     THEN <<[new_regime |-> l.new_tax_per_slab, old_regime |-> l.old_tax_per_slab]>>
     ELSE <<>>]

----------------------------------------------------------------------------
(* The inputs the client program draws from *)

\* calculate_tax calls made on one calculator
MaxCalls == 2

\* brackets of a table handed to the slab engine directly
MaxBrackets == 3

\* largest finite upper limit of such a table
MaxLimit == 4

AgeVals == {17, 27, 60, 80}

YearVals == {2024, 2025}

\* ages and years around the edges of the ranges TaxSettings accepts
SettingsAgeVals == {0 - 1, 0, 17, 18, 19, 59, 60, 79, 80, 99, 100, 101, 150}

SettingsYearVals == {0, 2024, 2025, 2026, 2049, 2050, 2051, 2100}

SalaryVals ==
  {SalaryIncomeNew(0, 0, 0, 0),
   SalaryIncomeNew(900000, 0, 200000, 25000),
   SalaryIncomeNew(900000, 500000, 200000, 25000),
   SalaryIncomeNew(475050, 0, 0, 0),
   SalaryIncomeNew(300005, 100000, 0, 0)}

BusinessVals == {BusinessIncomeNew(300000, 120000)}

OtherVals == {OtherIncomeNew(35000, 65000, 0)}

CapitalGainsVals == {CapitalGainsIncomeNew(10000, 20000, 25000, 5000)}

With(p, v) == [DeductionDefaults EXCEPT ![p] = v]

\* Deductions arguments handed to a calculator: each parameter alone, a few
\* rents, a negative amount, and rent together with a section
DedArgsCalc ==
  {DeductionDefaults}
    \cup {With(p, 60000) : p \in DeductionParams}
    \cup {With("rent_for_hra_exemption", r) : r \in {50000, 450000, 600000}}
    \cup {With("section_80c", 0 - 100000)}
    \cup {[With("rent_for_hra_exemption", 450000) EXCEPT !["section_80c"] = 200000]}

\* Deductions arguments for the Deductions object on its own: each parameter
\* negative, small, and above every ceiling
DedArgsFull ==
  {DeductionDefaults}
    \cup {With(p, v) : p \in DeductionParams, v \in {0 - 1000, 1000, 2000000}}
    \cup {[With("section_80c", 1000) EXCEPT !["section_80ggc"] = 3000,
                                            !["section_80gg"] = 5000]}

SetterVals == {<<>>, <<0 - 5>>, <<4000>>, <<60000>>}

\* bracket tables for a direct call: strictly increasing finite limits, the
\* last limit unbounded
RateVals == {0, 1, 4}

LimitSeqs(n) ==
  {ls \in [1..n -> 1..MaxLimit] : \A i \in 1..(n - 1) : ls[i] < ls[i + 1]}

SlabTables ==
  UNION {
    {[i \in 1..(n + 1) |->
        [limit |-> IF i <= n THEN ls[i] ELSE Inf, rate |-> rs[i]]] :
       ls \in LimitSeqs(n), rs \in [1..(n + 1) -> RateVals]} :
    n \in 0..(MaxBrackets - 1)}

TaxableVals == (0 - 1)..(MaxLimit + 2)

----------------------------------------------------------------------------
(* The state machine *)

NoSettings == TaxSettingsNew(0, 0, FALSE, "none")

\* nothing constructed yet
InitFields ==
  /\ err = "none"
  /\ settings = NoSettings
  /\ salary = SalaryIncomeNew(0, 0, 0, 0)
  /\ business = BusinessIncomeNew(0, 0)
  /\ other_income = OtherIncomeNew(0, 0, 0)
  /\ capital_gains = CapitalGainsIncomeNew(0, 0, 0, 0)
  /\ deductions = DeductionsNew(DeductionDefaults)
  /\ ded_args = DeductionDefaults
  /\ given = {}
  /\ calls = 0
  /\ locals = <<>>
  /\ result = <<>>
  /\ slab_out = <<>>
  /\ settings_args = <<>>
  /\ set_args = <<>>
  /\ first = <<>>

Init ==
  /\ pc = "settings"
  /\ InitFields
  /\ slab_in = <<>>

\* the calculator's fields: the objects IncomeTaxCalculator.__init__ stored
\* (a model that was not passed is the all-zero default the variable holds)
Self ==
  [settings |-> settings, salary |-> salary, business |-> business,
   other_income |-> other_income, deductions |-> deductions]

\* the order the client constructs the models in
Rank(name) ==
  CASE name = "salary" -> 1
    [] name = "business" -> 2
    [] name = "other_income" -> 3
    [] name = "capital_gains" -> 4
    [] name = "deductions" -> 5

MayConstruct(name) ==
  /\ pc = "models"
  /\ \A g \in given : Rank(g) < Rank(name)

\* TaxSettings(age, financial_year, is_metro_resident, employment_type)
TaxSettingsInit(age, financial_year) ==
  /\ pc = "settings"
  /\ \E is_metro_resident \in BOOLEAN, employment_type \in EmploymentType :
       /\ settings_args' = <<TaxSettingsNew(age, financial_year,
                                            is_metro_resident, employment_type)>>
       /\ IF TaxSettingsValid(age, financial_year)
          THEN /\ settings' = TaxSettingsNew(age, financial_year,
                                             is_metro_resident, employment_type)
               /\ pc' = "models"
               /\ err' = "none"
          ELSE /\ settings' = settings
               /\ pc' = "failed"
               /\ err' = "TaxCalculationException"
  /\ UNCHANGED <<salary, business, other_income, capital_gains, deductions,
                 ded_args, given, calls, locals, result, slab_in, slab_out,
                 set_args, first>>

\* SalaryIncome(basic_and_da, hra, other_allowances, bonus_and_commissions)
SalaryIncomeInit ==
  /\ MayConstruct("salary")
  /\ \E s \in SalaryVals : salary' = s
  /\ given' = given \cup {"salary"}
  /\ UNCHANGED <<pc, err, settings, business, other_income, capital_gains,
                 deductions, ded_args, calls, locals, result, slab_in, slab_out,
                 settings_args, set_args, first>>

\* BusinessIncome(business_income, property_income)
BusinessIncomeInit ==
  /\ MayConstruct("business")
  /\ \E b \in BusinessVals : business' = b
  /\ given' = given \cup {"business"}
  /\ UNCHANGED <<pc, err, settings, salary, other_income, capital_gains,
                 deductions, ded_args, calls, locals, result, slab_in, slab_out,
                 settings_args, set_args, first>>

\* OtherIncome(savings_account_interest, fixed_deposit_interest, other_sources)
OtherIncomeInit ==
  /\ MayConstruct("other_income")
  /\ \E o \in OtherVals : other_income' = o
  /\ given' = given \cup {"other_income"}
  /\ UNCHANGED <<pc, err, settings, salary, business, capital_gains,
                 deductions, ded_args, calls, locals, result, slab_in, slab_out,
                 settings_args, set_args, first>>

\* CapitalGainsIncome(...)
CapitalGainsIncomeInit ==
  /\ MayConstruct("capital_gains")
  /\ \E c \in CapitalGainsVals : capital_gains' = c
  /\ given' = given \cup {"capital_gains"}
  /\ UNCHANGED <<pc, err, settings, salary, business, other_income,
                 deductions, ded_args, calls, locals, result, slab_in, slab_out,
                 settings_args, set_args, first>>

\* Deductions(**a)
DeductionsInit(a) ==
  /\ MayConstruct("deductions")
  /\ ded_args' = a
  /\ deductions' = DeductionsNew(a)
  /\ given' = given \cup {"deductions"}
  /\ UNCHANGED <<pc, err, settings, salary, business, other_income,
                 capital_gains, calls, locals, result, slab_in, slab_out,
                 settings_args, set_args, first>>

\* deductions.section_80tta = arg
Set80tta(arg) ==
  /\ "deductions" \in given
  /\ pc \in {"models", "ready"}
  /\ set_args' = <<[field |-> "section_80tta", value |-> arg]>>
  /\ LET value == NoneAsZero(arg)
     IN IF SetterRejects(value)
        THEN /\ err' = "TaxCalculationException"
             /\ deductions' = deductions
        ELSE /\ err' = "none"
             /\ deductions' = [deductions EXCEPT !.section_80tta = Setter80ttaStored(value)]
  /\ UNCHANGED <<pc, settings, salary, business, other_income, capital_gains,
                 ded_args, given, calls, locals, result, slab_in, slab_out,
                 settings_args, first>>

\* deductions.section_80ttb = arg
Set80ttb(arg) ==
  /\ "deductions" \in given
  /\ pc \in {"models", "ready"}
  /\ set_args' = <<[field |-> "section_80ttb", value |-> arg]>>
  /\ LET value == NoneAsZero(arg)
     IN IF SetterRejects(value)
        THEN /\ err' = "TaxCalculationException"
             /\ deductions' = deductions
        ELSE /\ err' = "none"
             /\ deductions' = [deductions EXCEPT !.section_80ttb = Setter80ttbStored(value)]
  /\ UNCHANGED <<pc, settings, salary, business, other_income, capital_gains,
                 ded_args, given, calls, locals, result, slab_in, slab_out,
                 settings_args, first>>

\* IncomeTaxCalculator(settings, ...) with every model constructed so far: a
\* capital_gains argument is none of __init__'s parameters (TypeError), and
\* _validate_inputs wants one of salary, business, other_income (ValueError);
\* a model not passed is a default one, all zero
IncomeTaxCalculatorInit ==
  /\ pc = "models"
  /\ IF "capital_gains" \in given
     THEN pc' = "failed" /\ err' = "TypeError"
     ELSE IF given \cap {"salary", "business", "other_income"} = {}
     THEN pc' = "failed" /\ err' = "ValueError"
     ELSE pc' = "ready" /\ err' = "none"
  /\ UNCHANGED <<settings, salary, business, other_income, capital_gains,
                 deductions, ded_args, given, calls, locals, result, slab_in, slab_out,
                 settings_args, set_args, first>>

\* the figures of a returned dict that every call reports, whatever its flags
Figures(r) == [income_summary |-> r.income_summary, tax_liability |-> r.tax_liability]

\* a faulty variant of CalculateTax: the call uses the deductions up, leaving
\* the Deductions object all zero
CalculateTaxConsumingDeductions ==
  /\ pc = "ready"
  /\ calls < MaxCalls
  /\ locals' = <<CalculateTaxLocals(Self)>>
  /\ \E is_comparision_needed \in BOOLEAN, is_tax_per_slab_needed \in BOOLEAN :
       result' = <<CalculateTaxResult(Self, locals'[1], is_comparision_needed,
                                      is_tax_per_slab_needed)>>
  /\ first' = IF first = <<>> THEN <<Figures(result'[1])>> ELSE first
  /\ calls' = calls + 1
  /\ err' = "none"
  /\ deductions' = DeductionsNew(DeductionDefaults)
  /\ UNCHANGED <<pc, settings, salary, business, other_income, capital_gains,
                 ded_args, given, slab_in, slab_out, settings_args, set_args>>

\* calculator.calculate_tax(is_comparision_needed, is_tax_per_slab_needed)
CalculateTax ==
  /\ pc = "ready"
  /\ calls < MaxCalls
  /\ locals' = <<CalculateTaxLocals(Self)>>
  /\ \E is_comparision_needed \in BOOLEAN, is_tax_per_slab_needed \in BOOLEAN :
       result' = <<CalculateTaxResult(Self, locals'[1], is_comparision_needed,
                                      is_tax_per_slab_needed)>>
  /\ first' = IF first = <<>> THEN <<Figures(result'[1])>> ELSE first
  /\ calls' = calls + 1
  /\ err' = "none"
  /\ UNCHANGED <<pc, settings, salary, business, other_income, capital_gains,
                 deductions, ded_args, given, slab_in, slab_out,
                 settings_args, set_args>>

Next ==
  \/ \E age \in AgeVals, financial_year \in YearVals : TaxSettingsInit(age, financial_year)
  \/ SalaryIncomeInit
  \/ BusinessIncomeInit
  \/ OtherIncomeInit
  \/ CapitalGainsIncomeInit
  \/ \E a \in DedArgsCalc : DeductionsInit(a)
  \/ IncomeTaxCalculatorInit
  \/ CalculateTax

Spec == Init /\ [][Next]_vars

\* The Deductions object on its own: construction, then the two setters
InitDed ==
  /\ pc = "models"
  /\ InitFields
  /\ slab_in = <<>>

NextDed ==
  \/ \E a \in DedArgsFull : DeductionsInit(a)
  \/ \E v \in SetterVals : Set80tta(v)
  \/ \E v \in SetterVals : Set80ttb(v)

SpecDed == InitDed /\ [][NextDed]_vars

\* TaxSettings on its own: one construction, over the edges of both ranges
NextSettings ==
  \E age \in SettingsAgeVals, financial_year \in SettingsYearVals :
    TaxSettingsInit(age, financial_year)

SpecSettings == Init /\ [][NextSettings]_vars

\* The slab engine on its own: one call on a taxable income and a table
InitSlab ==
  /\ pc = "slab"
  /\ InitFields
  /\ slab_in \in {<<[taxable_income |-> t, slab |-> tb]>> : t \in TaxableVals, tb \in SlabTables}

SlabCall ==
  /\ pc = "slab"
  /\ slab_out = <<>>
  /\ slab_out' = <<calculate_tax_per_slab(slab_in[1].taxable_income, slab_in[1].slab)>>
  /\ UNCHANGED <<pc, err, settings, salary, business, other_income, capital_gains,
                 deductions, ded_args, given, calls, locals, result, slab_in,
                 settings_args, set_args, first>>

NextSlab == SlabCall

SpecSlab == InitSlab /\ [][NextSlab]_vars

----------------------------------------------------------------------------
(* Properties *)

RECURSIVE SumValues(_)
SumValues(d) == IF d = <<>> THEN 0 ELSE d[1].value + SumValues(Tail(d))

\* C1: for a taxable income T and a valid bracket table, the amounts of the
\* breakdown sum to the tax returned, and the keys (lower, upper) are
\* contiguous and increasing: the first lower bound is 0, each upper bound is
\* the next lower bound, the last upper bound is T; for T <= 0 the tax is 0
\* and the breakdown is empty.
C1_SlabBreakdown ==
  slab_out # <<>> =>
    LET T == slab_in[1].taxable_income
        tax == slab_out[1].tax
        d == slab_out[1].tax_per_slab
    IN IF T <= 0
       THEN tax = 0 /\ d = <<>>
       ELSE /\ SumValues(d) = tax
            /\ Len(d) >= 1
            /\ d[1].key[1] = 0
            /\ \A i \in 1..(Len(d) - 1) : d[i].key[2] = d[i + 1].key[1]
            /\ \A i \in 1..Len(d) : d[i].key[1] < d[i].key[2]
            /\ d[Len(d)].key[2] = T

\* a call that went through three brackets, the unbounded one included, and
\* stopped inside it with tax due
C1_Witness ==
  /\ slab_out # <<>>
  /\ Len(slab_in[1].slab) = 3
  /\ Len(slab_out[1].tax_per_slab) = 3
  /\ slab_out[1].tax_per_slab[3].value > 0
  /\ slab_out[1].tax > slab_out[1].tax_per_slab[3].value

\* C2: with every income component zero, calculate_tax reports zero tax
\* liability under the new and the old regime, whatever the deductions.
C2_ZeroIncomeZeroTax ==
  (result # <<>> /\ gross_income(Self) = 0) =>
    /\ result[1].tax_liability.new_regime = 0
    /\ result[1].tax_liability.old_regime = 0

\* C3: each regime's reported liability is tax + surcharge + cess, the cess
\* being 4% of (tax + surcharge) and the surcharge not negative: so the
\* reported liability exceeds the regime's tax by at least a 25th of it.
C3_CessOnTop ==
  result # <<>> =>
    /\ 25 * (result[1].tax_liability.new_regime - locals[1].new_tax) >= locals[1].new_tax
    /\ 25 * (result[1].tax_liability.old_regime - locals[1].old_tax) >= locals[1].old_tax

\* C4: the comparison recommends the regime with the strictly lower total,
\* "new" on a tie, and tax_savings_amount is round(|new - old|), never
\* negative.
C4_RegimeComparison ==
  locals # <<>> =>
    LET new_total == locals[1].new_tax
        old_total == locals[1].old_tax
        r == locals[1].recommendation
    IN /\ (new_total < old_total => r.recommended_regime = "new")
       /\ (old_total < new_total => r.recommended_regime = "old")
       /\ (new_total = old_total => r.recommended_regime = "new")
       /\ r.tax_savings_amount = Round0(Abs(new_total - old_total))
       /\ r.tax_savings_amount >= 0
       /\ \A i \in 1..Len(result[1].tax_regime_comparison) :
            result[1].tax_regime_comparison[i] = r

\* a call that returned a comparison recommending the old regime with savings
C4_Witness ==
  /\ result # <<>>
  /\ result[1].tax_regime_comparison # <<>>
  /\ result[1].tax_regime_comparison[1].recommended_regime = "old"
  /\ result[1].tax_regime_comparison[1].tax_savings_amount > 0

\* the ceiling of a capped parameter of Deductions.__init__
Ceiling(p) ==
  CASE p = "section_80c" -> 150000
    [] p = "section_80d" -> 100000
    [] p = "section_80dd" -> 1250000
    [] p = "section_80ddb" -> 100000
    [] p = "section_24b" -> 200000
    [] p = "section_80ccd_1b" -> 50000
    [] p = "section_80ccd_2" -> 168001
    [] p = "section_80eea" -> 150000
    [] p = "section_80u" -> 125000
    [] p = "section_80eeb" -> 150000
    [] p = "professional_tax" -> 2500
    [] p = "food_coupons" -> 26000

CappedParams ==
  {"section_80c", "section_80d", "section_80dd", "section_80ddb", "section_24b",
   "section_80ccd_1b", "section_80ccd_2", "section_80eea", "section_80u",
   "section_80eeb", "professional_tax", "food_coupons"}

\* C5: the value a capped field stores at construction is
\* min(max(input, 0), ceiling): within [0, ceiling], and the cap applied
\* again leaves it unchanged.
C5_CappedStored ==
  "deductions" \in given =>
    \A p \in CappedParams :
      /\ deductions[p] = Min2(Max2(ded_args[p], 0), Ceiling(p))
      /\ deductions[p] >= 0
      /\ deductions[p] <= Ceiling(p)
      /\ Min2(Max2(deductions[p], 0), Ceiling(p)) = deductions[p]

\* the HRA exemption that enters total_deductions, in paise
HraExemption(c) ==
  calculate_hra_component_for_private(c) + calculate_hra_component_for_self_employed(c)

\* C6: with salary and rent not negative, the HRA exemption that enters the
\* old-regime deduction total is never negative, and for a salaried taxpayer
\* it is 0 when the rent does not exceed 10% of basic_and_da.
C6_HraNeverNegative ==
  (pc = "ready" /\ deductions.rent_for_hra_exemption >= 0) =>
    /\ HraExemption(Self) >= 0
    /\ (/\ settings.employment_type # SELF_EMPLOYED
        /\ 10 * deductions.rent_for_hra_exemption <= salary.basic_and_da)
         => HraExemption(Self) = 0

\* C7: for PRIVATE and GOVERNMENT the exemption is min(HRA received,
\* P x basic_and_da, rent - 10% of basic_and_da), P = 50% for a metro
\* resident and 40% otherwise; for SELF_EMPLOYED it is min(5000, 25% of gross
\* income, 10% of basic_and_da).
C7_HraPolicy ==
  pc = "ready" =>
    HraExemption(Self) =
      IF settings.employment_type = SELF_EMPLOYED
      THEN Min3(100 * 5000, 25 * gross_income(Self), 10 * salary.basic_and_da)
      ELSE Min3(100 * salary.hra,
                (IF settings.is_metro_resident THEN 50 ELSE 40) * salary.basic_and_da,
                100 * deductions.rent_for_hra_exemption - 10 * salary.basic_and_da)

\* C8: the new-regime taxable income and liability are those of the same
\* settings and income with no deductions at all, so any two Deductions give
\* the same new-regime figures; the taxable income is
\* max(0, gross_income - standard_deduction).
C8_NewRegimeIgnoresDeductions ==
  result # <<>> =>
    LET bare == [Self EXCEPT !.deductions = DeductionsNew(DeductionDefaults)]
        l == CalculateTaxLocals(bare)
        sd == IF settings.employment_type = SELF_EMPLOYED
              THEN 0 ELSE standard_deduction(settings)
    IN /\ result[1].income_summary.new_regime_taxable_income = l.new_taxable
       /\ result[1].income_summary.new_regime_taxable_income
            = Max2(0, 100 * gross_income(Self) - 100 * sd)
       /\ result[1].tax_liability.new_regime = Round2(l.new_tax)
       /\ locals[1].new_tax_per_slab = l.new_tax_per_slab

\* a call with deductions and an HRA exemption that lower the old-regime
\* income, and new-regime tax due
C8_Witness ==
  /\ result # <<>>
  /\ DeductionsTotal(deductions) > 0
  /\ HraExemption(Self) > 0
  /\ result[1].income_summary.old_regime_taxable_income
       < result[1].income_summary.new_regime_taxable_income
  /\ result[1].tax_liability.new_regime > 0

\* C9: a CapitalGainsIncome supplied to the calculator is accepted, and its
\* total_capital_gains_tax is added on top of the slab tax of both regimes.
C9_CapitalGainsAdded ==
  ("capital_gains" \in given /\ pc \in {"ready", "failed"}) =>
    /\ pc = "ready"
    /\ result # <<>> =>
         /\ result[1].tax_liability.new_regime
              = Round2(calculate_tax_per_slab(locals[1].new_taxable,
                         get_tax_slabs(settings.financial_year, settings.age).new_regime).tax
                       + total_capital_gains_tax(capital_gains))
         /\ result[1].tax_liability.old_regime
              >= Round2(total_capital_gains_tax(capital_gains))

\* C10: total is the sum of every deduction field counted once, 80GG
\* included, rent_for_hra_exemption not.
C10_TotalCountsEachOnce ==
  "deductions" \in given =>
    DeductionsTotal(deductions) =
      deductions.section_80c + deductions.section_80d + deductions.section_80gg
        + deductions.section_80dd + deductions.section_80ddb + deductions.section_24b
        + deductions.section_80ccd_1b + deductions.section_80ccd_2
        + deductions.section_80eea + deductions.section_80u + deductions.section_80eeb
        + deductions.section_80e + deductions.section_80g_50percent
        + deductions.section_80g_100percent + deductions.section_80gga
        + deductions.section_80ggc + deductions.section_80tta + deductions.section_80ttb
        + deductions.professional_tax + deductions.food_coupons
        + deductions.other_exemption

\* C11: constructing TaxSettings succeeds exactly when 18 <= age <= 100 and
\* 2025 <= financial_year <= 2050; otherwise it raises
\* TaxCalculationException and there is no settings object.
C11_SettingsRange ==
  settings_args # <<>> =>
    LET a == settings_args[1]
    IN IF /\ 18 <= a.age /\ a.age <= 100
          /\ 2025 <= a.financial_year /\ a.financial_year <= 2050
       THEN settings = a /\ pc = "models" /\ err = "none"
       ELSE settings = NoSettings /\ pc = "failed" /\ err = "TaxCalculationException"

\* a construction at the upper end of both ranges, which succeeded
C11_Witness ==
  /\ settings_args # <<>>
  /\ settings_args[1].age = 100
  /\ settings_args[1].financial_year = 2050
  /\ settings = settings_args[1]

\* C12: a calculate_tax call, whatever its flags, leaves every field of the
\* settings, salary, business, other-income and deductions models unchanged,
\* and returns the gross income, taxable incomes and tax liabilities the
\* first call returned.
C12_CallsArePure ==
  [][calls' # calls =>
       /\ settings' = settings
       /\ salary' = salary
       /\ business' = business
       /\ other_income' = other_income
       /\ deductions' = deductions
       /\ first # <<>> => Figures(result'[1]) = first[1]]_vars

\* a second call, with the slab breakdown, on deductions that matter
C12_Witness ==
  /\ calls = 2
  /\ first # <<>>
  /\ result[1].tax_per_slabs # <<>>
  /\ DeductionsTotal(deductions) > 0
  /\ result[1].tax_liability.old_regime > 0

\* C13 as stated: the old-regime liability calculate_tax reports is
\* max(0, old_regime_total_tax - Deductions.total), old_regime_total_tax being
\* the slab tax on the old-regime taxable income; it is never negative, and
\* never above old_regime_total_tax when Deductions.total >= 0.
C13_OldRegimeRebateUnrounded ==
  result # <<>> =>
    LET old_regime_total_tax ==
          calculate_tax_per_slab(
            result[1].income_summary.old_regime_taxable_income,
            get_tax_slabs(settings.financial_year, settings.age)[old_slab_key(settings.age)]).tax
        total == DeductionsTotal(deductions)
        reported == result[1].tax_liability.old_regime
    IN /\ reported = Max2(0, old_regime_total_tax - 2000 * total)
       /\ reported >= 0
       /\ total >= 0 => reported <= old_regime_total_tax

\* C13, amended: the old-regime liability calculate_tax reports is
\* max(0, old_regime_total_tax - Deductions.total) rounded to two decimals,
\* old_regime_total_tax being the slab tax on the old-regime taxable income,
\* from which the same deductions were already taken; it is never negative,
\* and never above old_regime_total_tax rounded to two decimals when
\* Deductions.total >= 0.
C13_OldRegimeRebate ==
  result # <<>> =>
    LET old_taxable == result[1].income_summary.old_regime_taxable_income
        old_regime_total_tax ==
          calculate_tax_per_slab(
            old_taxable,
            get_tax_slabs(settings.financial_year, settings.age)[old_slab_key(settings.age)]).tax
        total == DeductionsTotal(deductions)
        reported == result[1].tax_liability.old_regime
    IN /\ old_taxable = get_taxable_income(Self).old_regime_taxable_income
       /\ locals[1].old_tax = Max2(0, old_regime_total_tax - 2000 * total)
       /\ reported = Round2(locals[1].old_tax)
       /\ reported >= 0
       /\ total >= 0 => reported <= Round2(old_regime_total_tax)

\* a call where the deductions lowered the taxable income and then took a
\* part, not all, of the tax on it
C13_Witness ==
  /\ result # <<>>
  /\ DeductionsTotal(deductions) > 0
  /\ result[1].income_summary.old_regime_taxable_income
       < result[1].income_summary.new_regime_taxable_income
  /\ result[1].tax_liability.old_regime > 0
  /\ result[1].tax_liability.old_regime < locals[1].old_slab_tax

\* C14: after any sequence of assignments to section_80tta and section_80ttb
\* the stored 80TTA value is in [0, 10000] and the stored 80TTB value in
\* [0, 50000]; an assignment of a negative value raises
\* TaxCalculationException and leaves the stored value and every other field
\* as they were, while None and non-negative values are accepted and stored
\* no higher than the ceiling.
C14_SettersRejectNegatives ==
  /\ [](/\ 0 <= deductions.section_80tta /\ deductions.section_80tta <= 10000
        /\ 0 <= deductions.section_80ttb /\ deductions.section_80ttb <= 50000)
  /\ [][("deductions" \in given /\ given' = given /\ pc' = pc /\ calls' = calls) =>
          LET a == set_args'[1]
              value == NoneAsZero(a.value)
              ceiling == IF a.field = "section_80tta" THEN 10000 ELSE 50000
          IN IF value < 0
             THEN /\ err' = "TaxCalculationException"
                  /\ deductions' = deductions
             ELSE /\ err' = "none"
                  /\ deductions' = [deductions EXCEPT ![a.field] = Min2(value, ceiling)]]_vars

\* a negative assignment to section_80tta was rejected while 4000 was stored
\* there and section_80ttb held its ceiling
C14_Witness ==
  /\ set_args # <<>>
  /\ set_args[1].field = "section_80tta"
  /\ NoneAsZero(set_args[1].value) < 0
  /\ err = "TaxCalculationException"
  /\ deductions.section_80tta = 4000
  /\ deductions.section_80ttb = 50000

\* C15: for valid settings and income and deduction amounts that are all
\* non-negative, get_taxable_income returns old_regime_taxable_income <=
\* new_regime_taxable_income, both >= 0: deductions and the HRA exemption
\* never raise the old-regime taxable income above gross income minus the
\* standard deduction.
C15_OldTaxableAtMostNew ==
  (/\ pc = "ready"
   /\ TaxSettingsValid(settings.age, settings.financial_year)
   /\ \A f \in DOMAIN salary : salary[f] >= 0
   /\ SalaryTotal(salary) >= 0 /\ BusinessTotal(business) >= 0 /\ OtherTotal(other_income) >= 0
   /\ \A f \in DeductionParams : ded_args[f] >= 0
   /\ deductions.section_80tta >= 0 /\ deductions.section_80ttb >= 0) =>
    LET t == get_taxable_income(Self)
    IN /\ t.old_regime_taxable_income <= t.new_regime_taxable_income
       /\ t.old_regime_taxable_income >= 0
       /\ t.new_regime_taxable_income >= 0

====
